---- MODULE Spec2Model ----
(***************************************************************************)
(* PoWA background worker (powa.c).                                        *)
(*                                                                         *)
(* Two independent parts of the program are modelled:                      *)
(*   - powa_main, the snapshot scheduler loop, with the asynchronous       *)
(*     events that reach it (SIGHUP reload, SIGTERM, latch set, postmaster *)
(*     death);                                                             *)
(*   - powa_stat_common, the statistics extractor behind                   *)
(*     powa_stat_user_functions / powa_stat_all_rel, running in a backend  *)
(*     session with its own MyDatabaseId and statistics cache.             *)
(*                                                                         *)
(* Clock values (now, begin, end) are in microseconds, the resolution of   *)
(* instr_time; powa_frequency and time_to_wait are in milliseconds.        *)
(***************************************************************************)
EXTENDS Integers, Sequences, FiniteSets, TLC

VARIABLES
    \* ---- scheduler process (powa_main) ----
    pc,               \* position of powa_main
    powa_frequency,   \* the GUC powa.frequency (ms)
    begin,            \* instr_time begin
    end,              \* instr_time end; after INSTR_TIME_SUBTRACT the tick's duration
    time_to_wait,     \* long time_to_wait (ms)
    freq_read,        \* value of powa_frequency read when time_to_wait was computed
    now,              \* wall clock
    latch,            \* MyProc->procLatch is set
    postmaster_alive, \* the postmaster is still running
    connected,        \* BackgroundWorkerInitializeConnection has run
    xact,             \* state of the tick's transaction
    exit_status,      \* process exit status, NotExited while running
    exit_path,        \* which stop path ended the process
    ticks,            \* number of ticks (snapshot invocations) started
    reloads,          \* number of SIGHUP reloads handled
    reload_value,     \* value the last reload read from the configuration file
    neg_reload,       \* a reload set a negative frequency since the last top-of-loop check
    shutdown_requested, \* a SIGINT/SIGTERM has been delivered
    start_frequency,  \* powa_frequency when powa_main was entered
    died_sleeping,    \* the postmaster died while powa_main was in WaitLatch
    \* ---- backend session (powa_stat_common) ----
    MyDatabaseId,     \* the session's database-scope identifier
    stat_cache,       \* backend-local statistics snapshot
    store,            \* the statistics collector's data
    gen,              \* number of collector updates so far
    backend_dbid,     \* local: MyDatabaseId saved at the last call
    dbid,             \* argument of the last call
    kind,             \* kind of the last call
    tupstore,         \* tuplestore filled by the last call
    outcome,          \* how the last call ended
    failed_at,        \* where the last call raised its error
    fetched,          \* dbentry the last call got from pgstat_fetch_stat_dbentry
    calls,            \* number of calls made
    violation,        \* caller-contract violation the last call was rejected for
    prev_dbid         \* argument of the call before the last one

schedVars == <<pc, powa_frequency, begin, end, time_to_wait, freq_read, now,
               latch, postmaster_alive, connected, xact, exit_status,
               exit_path, ticks, reloads, reload_value, neg_reload,
               shutdown_requested, start_frequency, died_sleeping>>

statVars == <<MyDatabaseId, stat_cache, store, gen, backend_dbid, dbid, kind,
              tupstore, outcome, failed_at, fetched, calls, violation,
              prev_dbid>>

vars == <<schedVars, statVars>>

----------------------------------------------------------------------------
(* Bounds of the model *)

MaxTicks == 3
MaxReloads == 2
MaxCalls == 2
MaxGen == 1

(* Values of powa.frequency tried at start and at reload (ms), within the  *)
(* GUC's range -1 .. INT_MAX/1000.                                         *)
FreqValues == {-1, 0, 1200, 5000, 7000}

(* Durations of one snapshot, in microseconds. *)
TickDurations == {1200000, 4999500, 5000000, 6000000}

(* How long into a sleep an external wake-up may arrive (microseconds). *)
EarlyWake == {0, 1000000}

----------------------------------------------------------------------------
(* Scheduler: constants and helpers *)

min_powa_frequency == 5000

NotExited == -1

UsecPerMsec == 1000

(* C conversion of a double to long: truncation toward zero. *)
TruncDiv(a, b) == IF a >= 0 THEN a \div b ELSE -((-a) \div b)

TooSmallFlipped(f) == f > 0 /\ f > min_powa_frequency

(* die_on_too_small_frequency's condition *)
TooSmall(f) == f > 0 /\ f < min_powa_frequency

DeactivatedBelowMinusOne(f) == f < -1

DeactivatedInverted(f) == f > 0

(* the tests at lines 167 and 207 *)
Deactivated(f) == f < 0

DieStatusClean == 0

(* exit(1) of every stop path of the worker *)
DieStatus == 1

TimeToWaitGap(f, e) == f

(* time_to_wait = powa_frequency - INSTR_TIME_GET_MILLISEC(end), a double *)
(* expression assigned to a long.                                         *)
TimeToWait(f, e) == TruncDiv(f * UsecPerMsec - e, UsecPerMsec)

(* The instant the timeout of the current WaitLatch expires: the wait is  *)
(* entered when the tick ends, at begin + end.                            *)
SleepUntil == begin + end + time_to_wait * UsecPerMsec

Exit(path) ==
    /\ pc' = "exited"
    /\ exit_status' = DieStatus
    /\ exit_path' = path

Running == pc \notin {"start", "exited"}

----------------------------------------------------------------------------
(* Scheduler: actions *)

InitSched ==
    /\ pc = "start"
    /\ powa_frequency \in FreqValues
    /\ begin = 0
    /\ end = 0
    /\ time_to_wait = 0
    /\ freq_read = 0
    /\ now = 0
    /\ latch = FALSE
    /\ postmaster_alive = TRUE
    /\ connected = FALSE
    /\ xact = "idle"
    /\ exit_status = NotExited
    /\ exit_path = "none"
    /\ ticks = 0
    /\ reloads = 0
    /\ reload_value = 0
    /\ neg_reload = FALSE
    /\ shutdown_requested = FALSE
    /\ start_frequency = powa_frequency
    /\ died_sleeping = FALSE

(* powa_main, lines 156-162: floor check, then signals are unblocked. *)
Starting ==
    /\ UNCHANGED statVars
    /\ UNCHANGED <<shutdown_requested, start_frequency, died_sleeping>>
    /\ pc = "start"
    /\ IF TooSmall(powa_frequency)
         THEN Exit("too_small")
         ELSE /\ pc' = "connecting"
              /\ UNCHANGED <<exit_status, exit_path>>
    /\ UNCHANGED <<powa_frequency, begin, end, time_to_wait, freq_read, now,
                   latch, postmaster_alive, connected, xact, ticks, reloads,
                   reload_value, neg_reload>>

(* powa_main, lines 167-192: deactivated check, connection, application name. *)
Connecting ==
    /\ UNCHANGED statVars
    /\ UNCHANGED <<shutdown_requested, start_frequency, died_sleeping>>
    /\ pc = "connecting"
    /\ IF Deactivated(powa_frequency)
         THEN /\ Exit("deactivated")
              /\ UNCHANGED connected
         ELSE /\ pc' = "loop_top"
              /\ connected' = TRUE
              /\ UNCHANGED <<exit_status, exit_path>>
    /\ UNCHANGED <<powa_frequency, begin, end, time_to_wait, freq_read, now,
                   latch, postmaster_alive, xact, ticks, reloads,
                   reload_value, neg_reload>>

(* powa_main, lines 207-223: top-of-loop check, then the tick starts. *)
LoopTop ==
    /\ UNCHANGED statVars
    /\ UNCHANGED <<shutdown_requested, start_frequency, died_sleeping>>
    /\ pc = "loop_top"
    /\ IF Deactivated(powa_frequency)
         THEN /\ Exit("disabled")
              /\ UNCHANGED <<begin, latch, xact, ticks>>
         ELSE /\ ticks < MaxTicks
              /\ pc' = "tick"
              /\ begin' = now
              /\ latch' = FALSE
              /\ xact' = "active"
              /\ ticks' = ticks + 1
              /\ UNCHANGED <<exit_status, exit_path>>
    /\ neg_reload' = FALSE
    /\ UNCHANGED <<powa_frequency, end, time_to_wait, freq_read, now,
                   postmaster_alive, connected, reloads, reload_value>>

(* powa_main, lines 224-230: the snapshot query returns after d, commit, *)
(* end := current time - begin.                                          *)
TickDone(d) ==
    /\ UNCHANGED statVars
    /\ UNCHANGED <<shutdown_requested, start_frequency, died_sleeping>>
    /\ pc = "tick"
    /\ now' = now + d
    /\ end' = now' - begin
    /\ xact' = "committed"
    /\ pc' = "tick_done"
    /\ UNCHANGED <<powa_frequency, begin, time_to_wait, freq_read, latch,
                   postmaster_alive, connected, exit_status, exit_path, ticks,
                   reloads, reload_value, neg_reload>>

ErrorInTickCaught ==
    /\ xact' = "aborted"
    /\ pc' = "loop_top"
    /\ UNCHANGED <<exit_status, exit_path>>

(* lines 220-227 have no PG_TRY: an ERROR raised under SPI_execute       *)
(* leaves powa_main, the transaction is aborted and the worker exits.    *)
ErrorInTick ==
    /\ xact' = "aborted"
    /\ Exit("tick_failed")

(* SPI_execute raises an ERROR: nothing in powa_main catches it, the      *)
(* transaction is aborted and the worker exits.                           *)
TickFail(d) ==
    /\ UNCHANGED statVars
    /\ UNCHANGED <<shutdown_requested, start_frequency, died_sleeping>>
    /\ pc = "tick"
    /\ now' = now + d
    /\ ErrorInTick
    /\ UNCHANGED <<powa_frequency, begin, end, time_to_wait, freq_read, latch,
                   postmaster_alive, connected, ticks, reloads, reload_value,
                   neg_reload>>

IntervalReadAtStart(current, atstart) == atstart

(* line 238 reads the global powa_frequency each time it computes a wait *)
IntervalAtWait(current, atstart) == current

(* powa_main, lines 238-256: compute the wait, enter WaitLatch if > 0. *)
ComputeWait ==
    /\ UNCHANGED statVars
    /\ UNCHANGED <<shutdown_requested, start_frequency, died_sleeping>>
    /\ pc = "tick_done"
    /\ freq_read' = IntervalAtWait(powa_frequency, start_frequency)
    /\ time_to_wait' = TimeToWait(freq_read', end)
    /\ pc' = IF time_to_wait' > 0 THEN "sleeping" ELSE "loop_top"
    /\ UNCHANGED <<powa_frequency, begin, end, now, latch, postmaster_alive,
                   connected, xact, exit_status, exit_path, ticks, reloads,
                   reload_value, neg_reload>>

WaitReturns ==
    /\ UNCHANGED statVars
    /\ UNCHANGED <<shutdown_requested, start_frequency, died_sleeping>>
    /\ pc' = "loop_top"
    /\ UNCHANGED <<powa_frequency, begin, end, time_to_wait, freq_read, latch,
                   postmaster_alive, connected, xact, exit_status, exit_path,
                   ticks, reloads, reload_value, neg_reload>>

(* WaitLatch returns on WL_TIMEOUT. *)
WaitTimeout ==
    /\ pc = "sleeping"
    /\ ~latch
    /\ postmaster_alive
    /\ now' = SleepUntil
    /\ WaitReturns

(* WaitLatch returns on WL_LATCH_SET; its result is not looked at. *)
WaitLatchSet ==
    /\ pc = "sleeping"
    /\ latch
    /\ now' = now
    /\ WaitReturns

(* WaitLatch returns on WL_POSTMASTER_DEATH; its result is not looked at. *)
WaitPostmasterDeath ==
    /\ pc = "sleeping"
    /\ ~postmaster_alive
    /\ now' = now
    /\ WaitReturns

(* Time at which an external event arrives: while the worker sleeps, some *)
(* instant before the timeout; otherwise the current instant.             *)
Arrives ==
    IF pc = "sleeping" /\ ~latch /\ postmaster_alive
      THEN \E e \in EarlyWake : now + e < SleepUntil /\ now' = now + e
      ELSE now' = now

(* powa_sighup: ProcessConfigFile(PGC_SIGHUP), die_on_too_small_frequency. *)
Sighup(v) ==
    /\ UNCHANGED statVars
    /\ UNCHANGED <<shutdown_requested, start_frequency, died_sleeping>>
    /\ Running
    /\ reloads < MaxReloads
    /\ reloads' = reloads + 1
    /\ reload_value' = v
    /\ powa_frequency' = v
    /\ neg_reload' = IF v < 0 THEN TRUE ELSE neg_reload
    /\ IF TooSmall(powa_frequency')
         THEN Exit("too_small")
         ELSE UNCHANGED <<pc, exit_status, exit_path>>
    /\ UNCHANGED <<begin, end, time_to_wait, freq_read, now, latch,
                   postmaster_alive, connected, xact, ticks>>

ShutdownHandlerSetsLatchOnly ==
    /\ latch' = TRUE
    /\ UNCHANGED <<pc, exit_status, exit_path>>

(* powa_main installs no handler of its own for SIGINT/SIGTERM: the      *)
(* default bgworker handlers end the process from the handler.           *)
ShutdownHandler ==
    /\ Exit("sigterm")
    /\ UNCHANGED latch

(* SIGINT/SIGTERM, handled by the default bgworker handlers: the process *)
(* leaves the loop whatever it is doing.                                 *)
Sigterm ==
    /\ UNCHANGED statVars
    /\ shutdown_requested' = TRUE
    /\ UNCHANGED <<start_frequency, died_sleeping>>
    /\ Running
    /\ Arrives
    /\ ShutdownHandler
    /\ UNCHANGED <<powa_frequency, begin, end, time_to_wait, freq_read,
                   postmaster_alive, connected, xact, ticks, reloads,
                   reload_value, neg_reload>>

(* Some process sets MyProc->procLatch. *)
SetLatch ==
    /\ UNCHANGED statVars
    /\ UNCHANGED <<shutdown_requested, start_frequency, died_sleeping>>
    /\ Running
    /\ ~latch
    /\ Arrives
    /\ latch' = TRUE
    /\ UNCHANGED <<pc, powa_frequency, begin, end, time_to_wait, freq_read,
                   postmaster_alive, connected, xact, exit_status, exit_path,
                   ticks, reloads, reload_value, neg_reload>>

(* The postmaster dies; nothing signals the worker. *)
PostmasterDeath ==
    /\ UNCHANGED statVars
    /\ died_sleeping' = (pc = "sleeping")
    /\ UNCHANGED <<shutdown_requested, start_frequency>>
    /\ Running
    /\ postmaster_alive
    /\ Arrives
    /\ postmaster_alive' = FALSE
    /\ UNCHANGED <<pc, powa_frequency, begin, end, time_to_wait, freq_read,
                   latch, connected, xact, exit_status, exit_path, ticks,
                   reloads, reload_value, neg_reload>>

NextSched ==
    \/ Starting
    \/ Connecting
    \/ LoopTop
    \/ \E d \in TickDurations : TickDone(d)
    \/ \E d \in TickDurations : TickFail(d)
    \/ ComputeWait
    \/ WaitTimeout
    \/ WaitLatchSet
    \/ WaitPostmasterDeath
    \/ \E v \in FreqValues : Sighup(v)
    \/ Sigterm
    \/ SetLatch
    \/ PostmasterDeath

----------------------------------------------------------------------------
(* Extractor: data *)

POWA_STAT_FUNC_COLS == 4
POWA_STAT_TAB_COLS == 21

(* Database oids known to the collector; the session is connected to     *)
(* SessionDb.                                                            *)
Dbs == {1, 2, 3}
SessionDb == 1
InvalidOid == 0

Kinds == {"POWA_STAT_FUNCTION", "POWA_STAT_TABLE"}

(* A nested hash table pointer: NULL, or a table holding entries. *)
NullHash == [present |-> FALSE, entries |-> {}]
Hash(S) == [present |-> TRUE, entries |-> S]

(* PgStat_StatDBEntry pointer: NULL, or an entry with its two tables. *)
NullEntry == [exists |-> FALSE, functions |-> NullHash, tables |-> NullHash]
DbEntry(f, t) == [exists |-> TRUE, functions |-> f, tables |-> t]

(* PgStat_StatFuncEntry *)
Func(id, numcalls, total, self) ==
    [functionid |-> id, f_numcalls |-> numcalls,
     f_total_time |-> total, f_self_time |-> self]

(* PgStat_StatTabEntry *)
Tab(id, scans, bfetched, bhit, vts, avts, ats, aats) ==
    [tableid |-> id, numscans |-> scans,
     tuples_returned |-> 11, tuples_fetched |-> 12, tuples_inserted |-> 13,
     tuples_updated |-> 14, tuples_deleted |-> 15, tuples_hot_updated |-> 16,
     n_live_tuples |-> 17, n_dead_tuples |-> 18,
     changes_since_analyze |-> 19,
     blocks_fetched |-> bfetched, blocks_hit |-> bhit,
     vacuum_timestamp |-> vts, vacuum_count |-> 21,
     autovac_vacuum_timestamp |-> avts, autovac_vacuum_count |-> 22,
     analyze_timestamp |-> ats, analyze_count |-> 23,
     autovac_analyze_timestamp |-> aats, autovac_analyze_count |-> 24]

(* Objects of database d have oids d*100 + k. *)
FuncsOf(d) == {Func(d * 100 + 1, 5, 2500, 1250),
               Func(d * 100 + 2, 0, 0, 0)}

TabsOf(d) == {Tab(d * 100 + 11, 7, 40, 30, 0, 0, 0, 0),
              Tab(d * 100 + 12, 0, 9, 9, 777, 0, 888, 0),
              Tab(d * 100 + 13, 2, 6, 0, 555, 666, 777, 888)}

(* What the collector may hold for database d: the session's own         *)
(* database always has activity recorded, database 2 takes every shape   *)
(* of entry, database 3 is unknown to the collector.                     *)
EntryChoices(d) ==
    IF d = SessionDb THEN {DbEntry(Hash(FuncsOf(d)), Hash(TabsOf(d)))}
    ELSE IF d = 3 THEN {NullEntry}
    ELSE {NullEntry,
          DbEntry(NullHash, NullHash),
          DbEntry(Hash(FuncsOf(d)), Hash(TabsOf(d))),
          DbEntry(Hash({}), Hash(TabsOf(d))),
          DbEntry(NullHash, Hash(TabsOf(d))),
          DbEntry(Hash(FuncsOf(d)), NullHash)}

Stores == {s \in [Dbs -> UNION {EntryChoices(d) : d \in Dbs}] :
              \A d \in Dbs : s[d] \in EntryChoices(d)}

(* The collector keeps counting. *)
BumpFunc(f) == [f EXCEPT !.f_numcalls = @ + 1, !.f_total_time = @ + 1500,
                         !.f_self_time = @ + 500]
BumpTab(t) == [t EXCEPT !.numscans = @ + 1, !.blocks_fetched = @ + 2,
                        !.blocks_hit = @ + 1]
BumpFuncs(h) == [h EXCEPT !.entries = {BumpFunc(x) : x \in h.entries}]
BumpTabs(h) == [h EXCEPT !.entries = {BumpTab(x) : x \in h.entries}]
Bump(s) == [d \in Dbs |->
              [s[d] EXCEPT !.functions = BumpFuncs(@),
                           !.tables = BumpTabs(@)]]

----------------------------------------------------------------------------
(* Extractor: the backend's statistics snapshot *)

NoCache == [valid |-> FALSE, scope |-> InvalidOid, data |-> << >>]

ClearSnapshotKeeps(c) == c

(* pgstat_clear_snapshot *)
ClearSnapshot(c) == NoCache

(* backend_read_statsfile: when there is no snapshot yet, read the        *)
(* collector's data, deep for the database MyDatabaseId names.            *)
ReadStats(c, mydb) ==
    IF c.valid THEN c ELSE [valid |-> TRUE, scope |-> mydb, data |-> store]

(* Lookup in the snapshot: the nested tables exist only for the database  *)
(* the snapshot was read for.                                             *)
Lookup(c, d) ==
    IF ~c.data[d].exists THEN NullEntry
    ELSE IF c.scope = d THEN c.data[d]
    ELSE DbEntry(NullHash, NullHash)

----------------------------------------------------------------------------
(* Extractor: building rows *)

EmptyRow == [values |-> << >>, nulls |-> << >>]

(* values[i++] = v *)
Put(r, v) == [values |-> Append(r.values, v), nulls |-> Append(r.nulls, FALSE)]

PutNullWithoutAdvance(r) == r

(* nulls[i++] = true; values[] was zeroed by memset *)
PutNull(r) == [values |-> Append(r.values, 0), nulls |-> Append(r.nulls, TRUE)]

PutTimestampNeverNull(r, ts) == Put(r, ts)

(* if (ts == 0) nulls[i++] = true; else values[i++] = ts *)
PutTimestamp(r, ts) == IF ts = 0 THEN PutNull(r) ELSE Put(r, ts)

(* ((double) t) / 1000.0, kept exact as whole and thousandths *)
Millis(t) == [whole |-> t \div 1000, thousandths |-> t % 1000]

PutAll(r, vs) ==
    [values |-> r.values \o vs, nulls |-> r.nulls \o [k \in 1..Len(vs) |-> FALSE]]

(* lines 377-380 *)
FuncRow(e) ==
    PutAll(EmptyRow, <<e.functionid, e.f_numcalls,
                       Millis(e.f_total_time), Millis(e.f_self_time)>>)

BlocksReadNotSubtracted(e) == e.blocks_fetched

(* line 418: blocks_fetched - blocks_hit *)
BlocksRead(e) == e.blocks_fetched - e.blocks_hit

(* lines 403-447 *)
TabRow(e) ==
    LET r13 == PutAll(EmptyRow,
                  <<e.tableid, e.numscans, e.tuples_returned, e.tuples_fetched,
                    e.tuples_inserted, e.tuples_updated, e.tuples_deleted,
                    e.tuples_hot_updated, e.n_live_tuples, e.n_dead_tuples,
                    e.changes_since_analyze,
                    BlocksRead(e), e.blocks_hit>>)
        r15 == Put(PutTimestamp(r13, e.vacuum_timestamp), e.vacuum_count)
        r17 == Put(PutTimestamp(r15, e.autovac_vacuum_timestamp),
                   e.autovac_vacuum_count)
        r19 == Put(PutTimestamp(r17, e.analyze_timestamp), e.analyze_count)
    IN  Put(PutTimestamp(r19, e.autovac_analyze_timestamp),
            e.autovac_analyze_count)

(* hash_seq_search yields the entries in an order the hash table decides. *)
Orderings(S) ==
    {o \in [1..Cardinality(S) -> S] :
        \A i, j \in 1..Cardinality(S) : i # j => o[i] # o[j]}

----------------------------------------------------------------------------
(* Extractor: powa_stat_common *)

RestoredScopeForgotten(saved, target) == target

(* line 357: MyDatabaseId = backend_dbid *)
RestoredScope(saved, target) == saved

EntryUsableNullTestInverted(e) == ~e.exists \/ e.functions.present

(* line 359: dbentry != NULL && dbentry->functions != NULL *)
EntryUsable(e) == e.exists /\ e.functions.present

(* lines 367 and 392: the hash table handed to hash_seq_init *)
Scanned(e, k) == IF k = "POWA_STAT_FUNCTION" THEN e.functions ELSE e.tables

(* lines 370-384 and 395-451: the row built for one entry *)
RowOf(e, k) == IF k = "POWA_STAT_FUNCTION" THEN FuncRow(e) ELSE TabRow(e)

(* What the build can do when hash_seq_init is given a NULL table. *)
NullScanOutcomes == {"crash", "ok"}

InitStat ==
    /\ MyDatabaseId = SessionDb
    /\ stat_cache = NoCache
    /\ store \in Stores
    /\ gen = 0
    /\ backend_dbid = InvalidOid
    /\ dbid = InvalidOid
    /\ kind = "POWA_STAT_FUNCTION"
    /\ tupstore = << >>
    /\ outcome = "none"
    /\ failed_at = "none"
    /\ fetched = NullEntry
    /\ calls = 0
    /\ violation = "none"
    /\ prev_dbid = InvalidOid

Called(d, k) ==
    /\ outcome # "crash"
    /\ calls < MaxCalls
    /\ calls' = calls + 1
    /\ dbid' = d
    /\ prev_dbid' = dbid
    /\ kind' = k
    /\ UNCHANGED <<store, gen>>

(* The three caller-contract tests of lines 291-307. *)
Violations == {"cannot_accept_set", "materialize_not_allowed", "not_a_row_type"}

SnapshotClearedBeforeTests(c) == NoCache

(* The statistics snapshot when an error of lines 291-307 leaves the     *)
(* function: pgstat_clear_snapshot (line 350) has not run yet.           *)
SnapshotAtRejection(c) == c

(* lines 291-307: the caller cannot take a materialized set of rows, or  *)
(* the declared result type is not a row type; the error is raised       *)
(* before line 350.                                                      *)
ExtractRejected(d, k, why) ==
    /\ UNCHANGED schedVars
    /\ Called(d, k)
    /\ outcome' = "error"
    /\ failed_at' = "caller"
    /\ violation' = why
    /\ tupstore' = << >>
    /\ stat_cache' = SnapshotAtRejection(stat_cache)
    /\ UNCHANGED <<MyDatabaseId, backend_dbid, fetched>>

(* lines 350-355: pgstat_fetch_stat_dbentry raises an ERROR (it checks   *)
(* for interrupts and allocates memory); control leaves by longjmp.      *)
ExtractFetchFails(d, k) ==
    /\ UNCHANGED schedVars
    /\ Called(d, k)
    /\ backend_dbid' = MyDatabaseId
    /\ MyDatabaseId' = d
    /\ stat_cache' = ClearSnapshot(stat_cache)
    /\ fetched' = NullEntry
    /\ tupstore' = << >>
    /\ outcome' = "error"
    /\ failed_at' = "fetch"
    /\ violation' = "none"

(* lines 350-468 once the fetch has returned.  n is the number of rows   *)
(* tuplestore_putvalues accepts before it raises an ERROR (it allocates  *)
(* memory and may write a temporary file); n = -1 when it never fails.   *)
ExtractFetched(d, k, n) ==
    LET c1 == ClearSnapshot(stat_cache)
        c2 == ReadStats(c1, d)
        dbentry == Lookup(c2, d)
        scan == Scanned(dbentry, k)
    IN  /\ UNCHANGED schedVars
        /\ Called(d, k)
        /\ backend_dbid' = MyDatabaseId
        /\ MyDatabaseId' = RestoredScope(MyDatabaseId, d)
        /\ fetched' = dbentry
        /\ violation' = "none"
        /\ IF ~EntryUsable(dbentry)
             THEN /\ n = -1
                  /\ tupstore' = << >>
                  /\ stat_cache' = ClearSnapshot(c2)
                  /\ outcome' = "ok"
                  /\ failed_at' = "none"
           ELSE IF ~scan.present
             THEN /\ n = -1
                  /\ tupstore' = << >>
                  /\ outcome' \in NullScanOutcomes
                  /\ failed_at' = IF outcome' = "crash" THEN "scan" ELSE "none"
                  /\ stat_cache' = IF outcome' = "crash" THEN c2
                                   ELSE ClearSnapshot(c2)
           ELSE \E o \in Orderings(scan.entries) :
                  IF n = -1
                    THEN /\ tupstore' = [i \in 1..Len(o) |-> RowOf(o[i], k)]
                         /\ stat_cache' = ClearSnapshot(c2)
                         /\ outcome' = "ok"
                         /\ failed_at' = "none"
                    ELSE /\ n < Len(o)
                         /\ tupstore' = [i \in 1..n |-> RowOf(o[i], k)]
                         /\ stat_cache' = c2
                         /\ outcome' = "error"
                         /\ failed_at' = "row"

(* Another statistics function of the same transaction reads the         *)
(* collector's data for the session's current scope.                     *)
OtherStatsQuery ==
    /\ UNCHANGED schedVars
    /\ ~stat_cache.valid
    /\ outcome # "crash"
    /\ stat_cache' = ReadStats(stat_cache, MyDatabaseId)
    /\ UNCHANGED <<MyDatabaseId, store, gen, backend_dbid, dbid, kind,
                   tupstore, outcome, failed_at, fetched, calls, violation,
                   prev_dbid>>

(* The statistics collector receives new counts. *)
CollectorUpdate ==
    /\ UNCHANGED schedVars
    /\ gen < MaxGen
    /\ gen' = gen + 1
    /\ store' = Bump(store)
    /\ UNCHANGED <<MyDatabaseId, stat_cache, backend_dbid, dbid, kind,
                   tupstore, outcome, failed_at, fetched, calls, violation,
                   prev_dbid>>

NextStat ==
    \/ \E d \in Dbs, k \in Kinds, why \in Violations :
          ExtractRejected(d, k, why)
    \/ \E d \in Dbs, k \in Kinds : ExtractFetchFails(d, k)
    \/ \E d \in Dbs, k \in Kinds, n \in -1..2 : ExtractFetched(d, k, n)
    \/ OtherStatsQuery
    \/ CollectorUpdate

----------------------------------------------------------------------------
(* Specifications *)

Init == InitSched /\ InitStat

Next == NextSched \/ NextStat

Spec == Init /\ [][Next]_vars

(* The scheduler alone, the session quiescent. *)
SchedInit ==
    InitSched /\ InitStat /\ \A d \in Dbs \ {SessionDb} : store[d] = NullEntry
SchedSpec == SchedInit /\ [][NextSched]_vars

(* The session alone, the worker not started. *)
StatInit == InitStat /\ InitSched /\ powa_frequency = 5000
StatSpec == StatInit /\ [][NextStat]_vars

----------------------------------------------------------------------------
(* Properties of the scheduler (checked under SchedSpec) *)

(* The last finished tick ran at least as long as the interval read for *)
(* it, and its wait has been computed.                                  *)
OverrunLast ==
    /\ ticks > 0
    /\ pc \in {"loop_top", "sleeping"}
    /\ end >= freq_read * UsecPerMsec

(* The last finished tick was shorter than the positive interval read   *)
(* for it, and its wait has been computed.                              *)
InTimeLast ==
    /\ ticks > 0
    /\ pc \in {"loop_top", "sleeping"}
    /\ freq_read > 0
    /\ end < freq_read * UsecPerMsec

Within(a, b, r) == a - b < r /\ b - a < r

(* C1: drift compensation.  After a tick of duration d < I (I > 0 the    *)
(* interval read for it) the wait is I - d and the next tick starts at   *)
(* previous_start + I, up to the millisecond resolution of the wait.     *)
C1_DriftCompensation ==
    [][ /\ InTimeLast' =>
             Within(time_to_wait' * UsecPerMsec,
                    freq_read' * UsecPerMsec - end', UsecPerMsec)
        /\ (InTimeLast /\ pc' = "tick") =>
             Within(begin', begin + freq_read * UsecPerMsec, UsecPerMsec)
      ]_vars

(* C2: overrun.  After a tick of duration d >= I (I the interval read    *)
(* for it, 0 included) the computed wait is <= 0, WaitLatch is not       *)
(* entered, and a tick that starts next starts at the instant the        *)
(* previous one ended.                                                   *)
C2_Overrun ==
    [][ /\ OverrunLast' => (time_to_wait' <= 0 /\ pc' # "sleeping")
        /\ (OverrunLast /\ pc' = "tick") => begin' = begin + end
      ]_vars

C2_Witness ==
    /\ pc = "tick"
    /\ ticks >= 2
    /\ freq_read = 5000
    /\ end = 6000000
    /\ time_to_wait = -1000
    /\ begin = now

(* C3 as stated: once a reload has set a negative interval, the next     *)
(* top-of-loop check ends the process with a non-zero status and starts  *)
(* no tick.                                                              *)
C3_NegativeReloadStops ==
    [][ (pc = "loop_top" /\ neg_reload /\ pc' # "loop_top") =>
           (pc' = "exited" /\ exit_status' > 0 /\ ticks' = ticks)
      ]_vars

(* C3 amended: once a reload has set a negative interval and the        *)
(* interval is still negative at the next top-of-loop check, that check  *)
(* ends the process with a non-zero status and starts no tick.           *)
C3_NegativeAtCheckStops ==
    [][ (pc = "loop_top" /\ neg_reload /\ powa_frequency < 0
           /\ pc' # "loop_top") =>
           (pc' = "exited" /\ exit_status' > 0 /\ ticks' = ticks)
      ]_vars

C3_Witness ==
    /\ pc = "exited"
    /\ exit_path = "disabled"
    /\ exit_status = 1
    /\ reload_value = -1
    /\ ticks >= 1

(* C4: a reload to a positive interval below the floor ends the process *)
(* in the handler with a non-zero status, the value is taken as it is    *)
(* (not clamped), and an ended process starts no tick.                   *)
C4_TooSmallReloadDies ==
    [][ /\ (reloads' = reloads + 1 /\ reload_value' > 0
              /\ reload_value' < min_powa_frequency) =>
             (pc' = "exited" /\ exit_status' > 0
                /\ powa_frequency' = reload_value' /\ ticks' = ticks)
        /\ pc = "exited" => (pc' = "exited" /\ ticks' = ticks)
      ]_vars

C4_Witness ==
    /\ pc = "exited"
    /\ exit_path = "too_small"
    /\ reloads >= 1
    /\ reload_value = 1200
    /\ powa_frequency = 1200
    /\ ticks >= 1

(* C5: a process ended by one of the scheduler's own stop paths has a   *)
(* non-zero exit status.                                                 *)
C5_NonZeroExit ==
    (pc = "exited" /\ exit_path \in {"too_small", "deactivated", "disabled"})
       => exit_status > 0

C5_Witness ==
    /\ pc = "exited"
    /\ exit_path = "disabled"
    /\ exit_status = 1

----------------------------------------------------------------------------
(* Properties of the extractor (checked under StatSpec) *)

(* The rows the requested collection of database d holds in the store. *)
RowsOf(d, k) == {RowOf(e, k) : e \in Scanned(store[d], k).entries}

(* C6: after a call that returns normally the session's scope is the    *)
(* one it had before the call.                                           *)
C6_ScopeRestored ==
    outcome = "ok" => MyDatabaseId = backend_dbid

C6_Witness ==
    /\ outcome = "ok"
    /\ dbid # SessionDb
    /\ ~fetched.exists
    /\ backend_dbid = SessionDb
    /\ MyDatabaseId = SessionDb

(* C7: a call that returns normally leaves the statistics snapshot      *)
(* empty and every row it returned is built from the collector's        *)
(* current data of its own target.                                      *)
C7_NoLeak ==
    [][ (calls' = calls + 1 /\ outcome' = "ok") =>
           /\ stat_cache' = NoCache
           /\ \A i \in 1..Len(tupstore') : tupstore'[i] \in RowsOf(dbid', kind')
      ]_vars

C7_Witness ==
    /\ calls = 2
    /\ outcome = "ok"
    /\ prev_dbid = 1
    /\ dbid = 2
    /\ gen = 1
    /\ Len(tupstore) = 3
    /\ stat_cache = NoCache

(* C8: when the fetch or the building of a row raises an error, the      *)
(* scope is restored and the snapshot is empty as control leaves.        *)
C8_ExceptionSafe ==
    (outcome = "error" /\ failed_at \in {"fetch", "row"}) =>
       (MyDatabaseId = backend_dbid /\ stat_cache = NoCache)

(* C9: a call that returns normally has emitted one row per entry of the *)
(* requested collection, whatever the other collection is.               *)
C9_OneRowPerEntry ==
    outcome = "ok" =>
       Len(tupstore) = Cardinality(Scanned(store[dbid], kind).entries)

(* C10: for a database without a statistics entry the call returns      *)
(* normally with no row, for either kind.                                *)
C10_NoEntryEmpty ==
    (calls > 0 /\ ~store[dbid].exists /\ failed_at \notin {"caller", "fetch"})
       => (outcome = "ok" /\ tupstore = << >>)

C10_Witness ==
    /\ calls > 0
    /\ ~store[dbid].exists
    /\ kind = "POWA_STAT_TABLE"
    /\ outcome = "ok"
    /\ tupstore = << >>

(* C11: a call rejected for a caller-contract violation (no set        *)
(* accepted, materialize mode not allowed, result type not a row type)   *)
(* leaves the session's scope and its statistics snapshot as they were.  *)
C11_RejectionTouchesNothing ==
    [][ (calls' = calls + 1 /\ violation' \in Violations) =>
           (outcome' = "error" /\ MyDatabaseId' = MyDatabaseId
              /\ stat_cache' = stat_cache)
      ]_vars

C11_Witness ==
    /\ outcome = "error"
    /\ violation = "not_a_row_type"
    /\ stat_cache.valid
    /\ stat_cache.scope = SessionDb
    /\ MyDatabaseId = SessionDb
    /\ tupstore = << >>

----------------------------------------------------------------------------
(* Further properties of the scheduler (checked under SchedSpec) *)

C13_TickFailureIsFatal ==
    [][ /\ xact' = "aborted" =>
             (pc' = "exited" /\ exit_path' = "tick_failed" /\ exit_status' > 0)
        /\ xact = "aborted" => (xact' = "aborted" /\ ticks' = ticks)
      ]_vars

C13_Witness ==
    /\ xact = "aborted"
    /\ pc = "exited"
    /\ exit_path = "tick_failed"
    /\ exit_status = 1
    /\ ticks = 2

BelowFloor(f) == f > 0 /\ f < min_powa_frequency

(* C14 as stated: a worker entered with an interval that is positive but *)
(* below the floor, or negative, never connects and never starts a tick, *)
(* and is ended with a non-zero status once both startup checks are      *)
(* past; the deactivated exit is only taken after the floor check.       *)
C14_StartupGating ==
    [][ /\ (BelowFloor(start_frequency) \/ start_frequency < 0) =>
             /\ ~connected'
             /\ ticks' = 0
             /\ pc' \notin {"start", "connecting"} =>
                   (pc' = "exited" /\ exit_status' > 0)
        /\ exit_path' = "deactivated" => pc \in {"connecting", "exited"}
      ]_vars

(* C14 amended: a worker entered with an interval that is positive but   *)
(* below the floor is ended by the floor check; a worker whose interval  *)
(* is negative when the deactivated check reads it is ended by that      *)
(* check; both with a non-zero status, no connection and no tick; the    *)
(* deactivated exit is only taken after the floor check.                 *)
C14_StartupChecksGate ==
    [][ /\ BelowFloor(start_frequency) =>
             /\ ~connected'
             /\ ticks' = 0
             /\ pc' # "start" =>
                   (pc' = "exited" /\ exit_path' = "too_small"
                      /\ exit_status' > 0)
        /\ (pc = "connecting" /\ powa_frequency < 0 /\ pc' # "connecting") =>
             (pc' = "exited" /\ exit_status' > 0 /\ ~connected'
                /\ ticks' = 0)
        /\ exit_path' = "deactivated" => pc \in {"connecting", "exited"}
      ]_vars

C14_Witness ==
    /\ pc = "exited"
    /\ exit_path = "deactivated"
    /\ exit_status = 1
    /\ start_frequency = -1
    /\ reloads = 0
    /\ ~connected
    /\ ticks = 0

ValidInterval(f) == f = 0 \/ f >= min_powa_frequency

(* C16: a reload to a valid interval (0, or at least the floor) leaves   *)
(* the worker running with that interval, and the wait computed at the   *)
(* end of a tick uses the interval of the latest such reload, not one    *)
(* read earlier: it is that interval minus the tick's duration.          *)
C16_LiveReload ==
    [][ /\ (reloads' = reloads + 1 /\ ValidInterval(reload_value')) =>
             /\ pc' = pc
             /\ exit_status' = NotExited
             /\ powa_frequency' = reload_value'
        /\ (pc = "tick_done" /\ pc' \in {"sleeping", "loop_top"}
              /\ reloads > 0 /\ ValidInterval(reload_value)) =>
             time_to_wait' =
                TruncDiv(reload_value * UsecPerMsec - end, UsecPerMsec)
      ]_vars

C16_Witness ==
    /\ pc = "sleeping"
    /\ start_frequency = 5000
    /\ reloads = 1
    /\ reload_value = 7000
    /\ end = 1200000
    /\ time_to_wait = 5800

(* C20: when the postmaster dies while the worker sleeps, the wait ends  *)
(* before its timeout, and the worker starts no tick afterwards.         *)
C20_NoTickAfterPostmasterDeath ==
    [][ /\ (died_sleeping /\ pc = "sleeping" /\ pc' = "loop_top") =>
             now' < SleepUntil
        /\ died_sleeping => ticks' = ticks
      ]_vars

----------------------------------------------------------------------------
(* Further properties of the extractor (checked under StatSpec) *)

(* The relation entry of the last call's target a row was built from;    *)
(* the collector never changes a relation's oid or its timestamps.       *)
HasSourceTab(r) ==
    \E e \in store[dbid].tables.entries : e.tableid = r.values[1]
SourceTab(r) ==
    CHOOSE e \in store[dbid].tables.entries : e.tableid = r.values[1]

(* Field k of row r is null exactly when the source timestamp is zero,   *)
(* and carries the timestamp otherwise.                                  *)
TimestampField(r, k, ts) ==
    /\ r.nulls[k] <=> (ts = 0)
    /\ ts # 0 => r.values[k] = ts

(* Field k of row r is not null and carries the count c. *)
CountField(r, k, c) == ~r.nulls[k] /\ r.values[k] = c

(* C15: in every relation row each of the four timestamp fields is null  *)
(* if and only if its source timestamp is zero and equals the source     *)
(* timestamp otherwise, and the count next to it is never null.          *)
C15_NullIffZeroTimestamp ==
    kind = "POWA_STAT_TABLE" =>
       \A i \in 1..Len(tupstore) :
          LET r == tupstore[i]
              e == SourceTab(r)
          IN  /\ Len(r.values) >= 1
              /\ HasSourceTab(r)
              /\ Len(r.nulls) = 21
              /\ TimestampField(r, 14, e.vacuum_timestamp)
              /\ CountField(r, 15, e.vacuum_count)
              /\ TimestampField(r, 16, e.autovac_vacuum_timestamp)
              /\ CountField(r, 17, e.autovac_vacuum_count)
              /\ TimestampField(r, 18, e.analyze_timestamp)
              /\ CountField(r, 19, e.analyze_count)
              /\ TimestampField(r, 20, e.autovac_analyze_timestamp)
              /\ CountField(r, 21, e.autovac_analyze_count)

C15_Witness ==
    /\ kind = "POWA_STAT_TABLE"
    /\ outcome = "ok"
    /\ \E i \in 1..Len(tupstore) :
          /\ ~tupstore[i].nulls[14] /\ tupstore[i].values[14] = 777
          /\ tupstore[i].nulls[16]
          /\ ~tupstore[i].nulls[18] /\ tupstore[i].values[18] = 888
          /\ tupstore[i].nulls[20]

(* The declared number of fields of a row of kind k (lines 382 and 449). *)
DeclaredCols(k) ==
    IF k = "POWA_STAT_FUNCTION" THEN POWA_STAT_FUNC_COLS
                                ELSE POWA_STAT_TAB_COLS

(* C17: every row in the sink has exactly the declared number of fields  *)
(* for the kind of the call, 4 for function statistics and 21 for        *)
(* relation statistics, whatever mix of null and non-null timestamps the *)
(* entry has.                                                            *)
C17_DeclaredFieldCount ==
    \A i \in 1..Len(tupstore) :
       /\ Len(tupstore[i].values) = DeclaredCols(kind)
       /\ Len(tupstore[i].nulls) = DeclaredCols(kind)
       /\ DeclaredCols(kind) = IF kind = "POWA_STAT_TABLE" THEN 21 ELSE 4

(* Relation rows with four, two and no null timestamps in one result. *)
C17_Witness ==
    /\ kind = "POWA_STAT_TABLE"
    /\ outcome = "ok"
    /\ Len(tupstore) = 3
    /\ \E i, j, k \in 1..Len(tupstore) :
          /\ Cardinality({c \in {14, 16, 18, 20} : tupstore[i].nulls[c]}) = 4
          /\ Cardinality({c \in {14, 16, 18, 20} : tupstore[j].nulls[c]}) = 2
          /\ Cardinality({c \in {14, 16, 18, 20} : tupstore[k].nulls[c]}) = 0

(* A float8 field holding exactly t / 1000. *)
IsThousandthOf(v, t) ==
    /\ v.thousandths \in 0..999
    /\ v.whole * 1000 + v.thousandths = t

(* Row r carries function entry e in the column order of powa_stat_function. *)
FuncRowCarries(r, e) ==
    /\ Len(r.values) >= 4
    /\ \A c \in 1..4 : ~r.nulls[c]
    /\ r.values[1] = e.functionid
    /\ r.values[2] = e.f_numcalls
    /\ IsThousandthOf(r.values[3], e.f_total_time)
    /\ IsThousandthOf(r.values[4], e.f_self_time)

(* Row r carries relation entry e in the column order of powa_stat_table. *)
TabRowCarries(r, e) ==
    /\ Len(r.values) >= 13
    /\ \A c \in 1..13 : ~r.nulls[c]
    /\ r.values[1] = e.tableid
    /\ r.values[2] = e.numscans
    /\ r.values[3] = e.tuples_returned
    /\ r.values[4] = e.tuples_fetched
    /\ r.values[5] = e.tuples_inserted
    /\ r.values[6] = e.tuples_updated
    /\ r.values[7] = e.tuples_deleted
    /\ r.values[8] = e.tuples_hot_updated
    /\ r.values[9] = e.n_live_tuples
    /\ r.values[10] = e.n_dead_tuples
    /\ r.values[11] = e.changes_since_analyze
    /\ r.values[12] + e.blocks_hit = e.blocks_fetched
    /\ r.values[13] = e.blocks_hit

RowCarries(r, e, k) ==
    IF k = "POWA_STAT_FUNCTION" THEN FuncRowCarries(r, e)
                                ELSE TabRowCarries(r, e)

(* The collection of the collector's data a call for database d and kind *)
(* k reads.                                                              *)
SourceEntries(d, k) ==
    IF k = "POWA_STAT_FUNCTION" THEN store[d].functions.entries
                                ELSE store[d].tables.entries

(* C18: when a call returns, every row it emitted carries the counters   *)
(* of one entry of the collector's data as they are at that moment, in   *)
(* the documented column order, with blocks read = blocks fetched minus  *)
(* blocks hit and function timings = source / 1000; when the call        *)
(* completes the scan, every entry of the collection has such a row.     *)
C18_CounterRoundTrip ==
    [][ calls' = calls + 1 =>
          /\ \A i \in 1..Len(tupstore') :
                \E e \in SourceEntries(dbid', kind') :
                   RowCarries(tupstore'[i], e, kind')
          /\ ( /\ outcome' = "ok"
               /\ EntryUsable(fetched')
               /\ Scanned(fetched', kind').present ) =>
                /\ Len(tupstore') = Cardinality(SourceEntries(dbid', kind'))
                /\ \A e \in SourceEntries(dbid', kind') :
                      \E i \in 1..Len(tupstore') :
                         RowCarries(tupstore'[i], e, kind')
      ]_vars

(* A completed relation call after a collector update, with a row whose  *)
(* blocks read differ from both source counters.                         *)
C18_Witness ==
    /\ kind = "POWA_STAT_TABLE"
    /\ outcome = "ok"
    /\ gen > 0
    /\ Len(tupstore) = 3
    /\ \E i \in 1..Len(tupstore) :
          /\ tupstore[i].values[12] > 0
          /\ tupstore[i].values[13] > 0
          /\ \E e \in store[dbid].tables.entries :
                /\ e.tableid = tupstore[i].values[1]
                /\ e.blocks_fetched = tupstore[i].values[12] + tupstore[i].values[13]

(* C19: whenever a call reaches hash_seq_init (the test of line 359      *)
(* passed for the entry it fetched), the collection it hands over, the   *)
(* relation table for POWA_STAT_TABLE and the function table for         *)
(* POWA_STAT_FUNCTION, is present.                                       *)
C19_ScannedCollectionPresent ==
    ( /\ calls > 0
      /\ failed_at \notin {"caller", "fetch"}
      /\ EntryUsable(fetched) )
       => Scanned(fetched, kind).present

====
